---- MODULE Spec2Model ----
(***************************************************************************)
(* CampusBarter: the entity store (shared/schema.ts), the storage layer    *)
(* (server/storage.ts, DatabaseStorage) and the request handlers           *)
(* (server/routes.ts) as a state machine.                                  *)
(*                                                                         *)
(* Money is counted in cents: a decimal(10,2) column value "10.50" is the  *)
(* integer 1050.  A nullable column that holds no value is NULL / NullText. *)
(*                                                                         *)
(* The store is a PostgreSQL database; checkout runs in db.transaction     *)
(* with no isolation level given, i.e. READ COMMITTED: each statement of   *)
(* the transaction reads what is committed when the statement runs, its    *)
(* own writes are invisible to others until COMMIT, and an UPDATE of a row *)
(* waits for another transaction's uncommitted UPDATE of the same row.     *)
(***************************************************************************)
EXTENDS Integers, Sequences, FiniteSets, TLC

(* ----------------------------- bounds --------------------------------- *)

\* cart rows the store may hold (the code has no limit)
MaxCart == 3
\* orders the store may hold (the code has no limit)
MaxOrders == 2

UserSeq == <<"u1", "u2", "u3">>
Users == {UserSeq[k] : k \in 1..Len(UserSeq)}
\* item ids (gen_random_uuid()); "Z" is an id no item was ever created with
ItemSeq == <<"A", "B", "C", "Z">>
ItemIds == {ItemSeq[k] : k \in 1..Len(ItemSeq)}
\* the users who send requests
Actors == {"u1", "u2"}
\* concurrent POST /api/checkout requests in flight
Procs == {"p1", "p2"}
\* prices a seller may enter, in cents

\* a nullable column without a value; a key the request body does not have
NULL == 0 - 1
NullText == "NULL"
ABSENT == 0 - 2
AbsentText == "ABSENT"

(* ----------------------------- schema --------------------------------- *)

VARIABLES
    items,          \* table items: item id -> row (state "none": no such row)
    cartItems,      \* table cart_items: user -> item -> number of rows
    wishlistItems,  \* table wishlist_items: user -> item -> number of rows
    orders,         \* table orders: sequence of rows, the id is the index
    orderItems,     \* table order_items: sequence of rows
    messages,       \* table messages: sequence of rows
    tx,             \* per checkout request: the locals of storage.checkout
    res,            \* the status of the latest response, checkout aside
    send            \* the locals of a POST /api/messages request in flight

vars == <<items, cartItems, wishlistItems, orders, orderItems, messages, tx, res, send>>
store == <<items, cartItems, wishlistItems, orders, orderItems, messages>>

NoItem ==
    [state |-> "none", userId |-> "", itemType |-> "", expectedExchange |-> NullText,
     price |-> NULL, isSold |-> FALSE]

\* a row of items as createItem leaves it: isSold takes the column default
NewItem(u, type, exch, price) ==
    [state |-> "live", userId |-> u, itemType |-> type, expectedExchange |-> exch,
     price |-> price, isSold |-> FALSE]

EmptyBag == [i \in ItemIds |-> 0]

RECURSIVE BagSize(_, _)
BagSize(bag, k) ==
    IF k = 0 THEN 0 ELSE bag[ItemSeq[k]] + BagSize(bag, k - 1)

Size(bag) == BagSize(bag, Len(ItemSeq))

RECURSIVE RowCount(_, _)
\* the number of rows of a table of (user, item) pairs
RowCount(table, k) ==
    IF k = 0 THEN 0 ELSE Size(table[UserSeq[k]]) + RowCount(table, k - 1)

\* res.status(status).json({ message }): the state keeps the status code
Response(status, message) == status

NoResponse == Response(0, "")

\* the locals of a POST /api/messages request between its reads and its
\* INSERT; pc is "idle" when no request is there
IdleSend ==
    [pc |-> "idle", userId |-> "", receiverId |-> "", itemId |-> "", messageText |-> NullText]

(* ------------------------- storage: reads ----------------------------- *)

\* storage.getItemById: the row, or undefined (NoItem) when no row has the id
getItemById(id) ==
    IF id \in ItemIds /\ items[id].state = "live" THEN items[id] ELSE NoItem

\* storage.getUserById
getUserById(id) == id \in Users

\* getMessagesByItemId that leaves out the messages about items that are sold
getMessagesByItemIdOnSale(itemId, userId) ==
    SelectSeq(messages, LAMBDA m :
        /\ m.itemId = itemId /\ (m.senderId = userId \/ m.receiverId = userId)
        /\ ~items[itemId].isSold)

\* storage.getMessagesByItemId: the rows about the item that the user sent
\* or received
getMessagesByItemId(itemId, userId) ==
    SelectSeq(messages, LAMBDA m :
        m.itemId = itemId /\ (m.senderId = userId \/ m.receiverId = userId))

\* the rows of a table of (user, item) pairs that are left when the item's
\* row is deleted (ON DELETE CASCADE)
\* Cascade of a foreign key with no ON DELETE action that is not enforced
CascadeNone(table, i) == table

Cascade(table, i) == [u \in Users |-> [table[u] EXCEPT ![i] = 0]]

(* --------------------------- item routes ------------------------------ *)

\* the ids that items were created with, deleted ones included
Used == {i \in ItemIds : items[i].state # "none"}

\* the item ids a request may name: those ever given out, and one that never was
KnownIds == Used \cup {"Z"}

\* gen_random_uuid(): an id no row ever had
FreshId == ItemSeq[Cardinality(Used) + 1]

\* request bodies of POST /api/items, as far as the model tells them apart:
\* for sale with a price, for barter, for sale without a price, no itemType
ItemInputs ==
    {[itemType |-> "sell", expectedExchange |-> NullText, price |-> 1500],
     [itemType |-> "barter", expectedExchange |-> "a book", price |-> NULL],
     [itemType |-> "sell", expectedExchange |-> NullText, price |-> NULL],
     [itemType |-> AbsentText, expectedExchange |-> NullText, price |-> 1500]}

\* request bodies of PUT /api/items/:id: a new price alone, a change to
\* barter, a change to sale without a price
UpdateInputs ==
    {[itemType |-> AbsentText, expectedExchange |-> AbsentText, price |-> 1000],
     [itemType |-> "barter", expectedExchange |-> "a book", price |-> NULL],
     [itemType |-> "sell", expectedExchange |-> NullText, price |-> NULL]}

\* insertItemSchema.parse: item_type is NOT NULL and has no default;
\* expected_exchange and price are nullable
ItemSchemaOk(in) == in.itemType \notin {AbsentText, NullText}

\* POST /api/items
PostItems(u, in) ==
    /\ IF ~ItemSchemaOk(in)
       THEN /\ res' = Response(400, "Validation error")
            /\ UNCHANGED items
       ELSE /\ items' = [items EXCEPT ![FreshId] =
                            NewItem(u, in.itemType, in.expectedExchange, in.price)]
            /\ res' = Response(201, "")
    /\ UNCHANGED <<cartItems, wishlistItems, orders, orderItems, messages, tx, send>>

\* updateItem that lists the item anew
updateItemRelisting(item, in) ==
    [item EXCEPT
        !.itemType = IF in.itemType = AbsentText THEN @ ELSE in.itemType,
        !.expectedExchange =
            IF in.expectedExchange = AbsentText THEN @ ELSE in.expectedExchange,
        !.price = IF in.price = ABSENT THEN @ ELSE in.price,
        !.isSold = FALSE]

\* storage.updateItem: db.update(items).set(item); a key the body does not
\* have is undefined and is left out of the SET
updateItem(item, in) ==
    [item EXCEPT
        !.itemType = IF in.itemType = AbsentText THEN @ ELSE in.itemType,
        !.expectedExchange =
            IF in.expectedExchange = AbsentText THEN @ ELSE in.expectedExchange,
        !.price = IF in.price = ABSENT THEN @ ELSE in.price]

\* the checkout transactions that hold the item's row locked: its isSold is
\* set, or an order_items row that references it is inserted, uncommitted
RowLocked(i) ==
    \E p \in DOMAIN tx :
        /\ tx[p].pc \in {"items", "mark", "clear"}
        /\ tx[p].done[i] > 0 \/ (tx[p].pc = "mark" /\ tx[p].cur = i)

\* the checkout transactions that hold the item's row updated: its isSold is
\* set, uncommitted.  (The lock of an order_items row that references the
\* item stops a DELETE of the item, not an UPDATE of its other columns.)
RowUpdated(i) ==
    \E p \in DOMAIN tx :
        tx[p].pc \in {"items", "mark", "clear"} /\ tx[p].done[i] > 0

\* PUT /api/items/:id (the UPDATE waits while the row is updated, uncommitted)
PutItem(u, i, in) ==
    /\ ~RowUpdated(i)
    /\ IF getItemById(i).state = "none"
       THEN /\ res' = Response(404, "Item not found")
            /\ UNCHANGED items
       ELSE IF getItemById(i).userId # u
       THEN /\ res' = Response(403, "Not authorized to update this item")
            /\ UNCHANGED items
       ELSE /\ items' = [items EXCEPT ![i] = updateItem(items[i], in)]
            /\ res' = Response(200, "")
    /\ UNCHANGED <<cartItems, wishlistItems, orders, orderItems, messages, tx, send>>

\* an order_items row references the item (item_id has no ON DELETE action)
Referenced(i) == \E k \in DOMAIN orderItems : orderItems[k].itemId = i

\* DeleteItem without the test of the owner
DeleteItemByAnyone(u, i) ==
    /\ ~RowLocked(i)
    /\ IF getItemById(i).state = "none"
       THEN /\ res' = Response(404, "Item not found")
            /\ UNCHANGED <<items, cartItems, wishlistItems, messages>>
       ELSE IF Referenced(i)
       THEN /\ res' = Response(500, "Failed to delete item")
            /\ UNCHANGED <<items, cartItems, wishlistItems, messages>>
       ELSE /\ items' = [items EXCEPT ![i] = [NoItem EXCEPT !.state = "deleted"]]
            /\ cartItems' = Cascade(cartItems, i)
            /\ wishlistItems' = Cascade(wishlistItems, i)
            /\ messages' = SelectSeq(messages, LAMBDA m : m.itemId # i)
            /\ res' = Response(204, "")
    /\ UNCHANGED <<orders, orderItems, tx, send>>

\* DELETE /api/items/:id (the DELETE waits for the row's lock); the rows of
\* messages, cart_items and wishlist_items that reference the item go with it
DeleteItem(u, i) ==
    /\ ~RowLocked(i)
    /\ IF getItemById(i).state = "none"
       THEN /\ res' = Response(404, "Item not found")
            /\ UNCHANGED <<items, cartItems, wishlistItems, messages>>
       ELSE IF getItemById(i).userId # u
       THEN /\ res' = Response(403, "Not authorized to delete this item")
            /\ UNCHANGED <<items, cartItems, wishlistItems, messages>>
       ELSE IF Referenced(i)
       THEN /\ res' = Response(500, "Failed to delete item")
            /\ UNCHANGED <<items, cartItems, wishlistItems, messages>>
       ELSE /\ items' = [items EXCEPT ![i] = [NoItem EXCEPT !.state = "deleted"]]
            /\ cartItems' = Cascade(cartItems, i)
            /\ wishlistItems' = Cascade(wishlistItems, i)
            /\ messages' = SelectSeq(messages, LAMBDA m : m.itemId # i)
            /\ res' = Response(204, "")
    /\ UNCHANGED <<orders, orderItems, tx, send>>

(* -------------------------- message routes ---------------------------- *)

\* message texts a request may carry: none, blank, some text
Texts == {NullText, " ", "hi"}

\* data.messageText && data.messageText.trim().length > 0
NonBlank(text) == text \notin {NullText, AbsentText, "", " "}

\* insertMessageSchema without its refinement
MessageSchemaUnrefined(text, fileUrl) == TRUE

\* the refinement of insertMessageSchema
MessageSchemaOk(text, fileUrl) == NonBlank(text) \/ NonBlank(fileUrl)

\* buyerInitiatedContact that takes any message the owner received about the
\* item for the receiver's
buyerInitiatedContactByAnyone(userId, receiverId, itemId) ==
    \E k \in DOMAIN getMessagesByItemId(itemId, userId) :
        LET msg == getMessagesByItemId(itemId, userId)[k]
        IN  msg.senderId # userId /\ msg.receiverId = userId

\* ownerMessages.some(msg => msg.senderId === receiverId && msg.receiverId === userId)
buyerInitiatedContact(userId, receiverId, itemId) ==
    \E k \in DOMAIN getMessagesByItemId(itemId, userId) :
        LET msg == getMessagesByItemId(itemId, userId)[k]
        IN  msg.senderId = receiverId /\ msg.receiverId = userId

\* MessageDenied with the owner's branch tested first
MessageDeniedOwnerFirst(userId, receiverId, item, itemId) ==
    IF item.userId = userId
    THEN IF buyerInitiatedContact(userId, receiverId, itemId) THEN ""
         ELSE "You can only reply to users who have contacted you about this item"
    ELSE IF receiverId = item.userId THEN ""
    ELSE "You can only message the item owner"

\* MessageDenied without the last branch: a send between two users who are
\* not the owner goes on
MessageDeniedToOwnerOnly(userId, receiverId, item, itemId) ==
    IF receiverId = item.userId THEN ""
    ELSE IF item.userId = userId
    THEN IF buyerInitiatedContact(userId, receiverId, itemId) THEN ""
         ELSE "You can only reply to users who have contacted you about this item"
    ELSE ""

\* the authorization of POST /api/messages: "" when the send may go on, the
\* message of the 403 otherwise
MessageDenied(userId, receiverId, item, itemId) ==
    IF receiverId = item.userId THEN ""
    ELSE IF item.userId = userId
    THEN IF buyerInitiatedContact(userId, receiverId, itemId) THEN ""
         ELSE "You can only reply to users who have contacted you about this item"
    ELSE "You can only message the item owner"

createMessage(senderId, receiverId, itemId, text, fileUrl) ==
    Append(messages, [senderId |-> senderId, receiverId |-> receiverId,
                      itemId |-> itemId, messageText |-> text, fileUrl |-> fileUrl])

\* PostMessages with the INSERT before insertMessageSchema.parse
PostMessagesInsertFirst(userId, receiverId, itemId, text) ==
    /\ IF getItemById(itemId).state = "none"
       THEN /\ res' = Response(404, "Item not found")
            /\ UNCHANGED messages
       ELSE IF ~getUserById(receiverId)
       THEN /\ res' = Response(404, "Receiver not found")
            /\ UNCHANGED messages
       ELSE IF MessageDenied(userId, receiverId, getItemById(itemId), itemId) # ""
       THEN /\ res' = Response(403, MessageDenied(userId, receiverId, getItemById(itemId), itemId))
            /\ UNCHANGED messages
       ELSE /\ messages' = createMessage(userId, receiverId, itemId, text, NullText)
            /\ res' = IF MessageSchemaOk(text, NullText)
                      THEN Response(201, "") ELSE Response(400, "Validation error")
    /\ UNCHANGED <<items, cartItems, wishlistItems, orders, orderItems, tx, send>>

\* POST /api/messages
PostMessages(userId, receiverId, itemId, text) ==
    /\ IF getItemById(itemId).state = "none"
       THEN /\ res' = Response(404, "Item not found")
            /\ UNCHANGED messages
       ELSE IF ~getUserById(receiverId)
       THEN /\ res' = Response(404, "Receiver not found")
            /\ UNCHANGED messages
       ELSE IF MessageDenied(userId, receiverId, getItemById(itemId), itemId) # ""
       THEN /\ res' = Response(403, MessageDenied(userId, receiverId, getItemById(itemId), itemId))
            /\ UNCHANGED messages
       ELSE IF ~MessageSchemaOk(text, NullText)
       THEN /\ res' = Response(400, "Validation error")
            /\ UNCHANGED messages
       ELSE /\ messages' = createMessage(userId, receiverId, itemId, text, NullText)
            /\ res' = Response(201, "")
    /\ UNCHANGED <<items, cartItems, wishlistItems, orders, orderItems, tx, send>>

\* POST /api/messages up to its INSERT: the reads of the item, the receiver
\* and the messages, and insertMessageSchema.parse; a request that passes
\* them goes on to PostMessagesInsert
PostMessagesReads(userId, receiverId, itemId, text) ==
    /\ send.pc = "idle"
    /\ IF getItemById(itemId).state = "none"
       THEN /\ res' = Response(404, "Item not found")
            /\ UNCHANGED send
       ELSE IF ~getUserById(receiverId)
       THEN /\ res' = Response(404, "Receiver not found")
            /\ UNCHANGED send
       ELSE IF MessageDenied(userId, receiverId, getItemById(itemId), itemId) # ""
       THEN /\ res' = Response(403, MessageDenied(userId, receiverId, getItemById(itemId), itemId))
            /\ UNCHANGED send
       ELSE IF ~MessageSchemaOk(text, NullText)
       THEN /\ res' = Response(400, "Validation error")
            /\ UNCHANGED send
       ELSE /\ send' = [pc |-> "insert", userId |-> userId, receiverId |-> receiverId,
                        itemId |-> itemId, messageText |-> text]
            /\ UNCHANGED res
    /\ UNCHANGED <<store, tx>>

\* storage.createMessage of the request in flight.  messages.item_id
\* references items: when the item's row is gone the INSERT fails, the
\* handler's catch answers 500
PostMessagesInsert ==
    /\ send.pc = "insert"
    /\ IF getItemById(send.itemId).state = "none"
       THEN /\ res' = Response(500, "Failed to send message")
            /\ UNCHANGED messages
       ELSE /\ messages' = createMessage(send.userId, send.receiverId, send.itemId,
                                         send.messageText, NullText)
            /\ res' = Response(201, "")
    /\ send' = IdleSend
    /\ UNCHANGED <<items, cartItems, wishlistItems, orders, orderItems, tx>>

\* PostMessagesUpload that lets the owner write to any user
PostMessagesUploadOwnerToAny(userId, receiverId, itemId, text, hasFile) ==
    /\ IF ~hasFile
       THEN /\ res' = Response(400, "No file uploaded")
            /\ UNCHANGED messages
       ELSE IF itemId = NullText \/ receiverId = NullText
       THEN /\ res' = Response(400, "itemId and receiverId required")
            /\ UNCHANGED messages
       ELSE IF getItemById(itemId).state = "none"
       THEN /\ res' = Response(404, "Item not found")
            /\ UNCHANGED messages
       ELSE IF ~getUserById(receiverId)
       THEN /\ res' = Response(404, "Receiver not found")
            /\ UNCHANGED messages
       ELSE IF /\ receiverId # getItemById(itemId).userId
               /\ getItemById(itemId).userId # userId
       THEN /\ res' = Response(403, "Not authorized")
            /\ UNCHANGED messages
       ELSE /\ messages' = createMessage(userId, receiverId, itemId,
                               IF text \in {NullText, ""} THEN NullText ELSE text,
                               "/uploads/messages/file")
            /\ res' = Response(201, "")
    /\ UNCHANGED <<items, cartItems, wishlistItems, orders, orderItems, tx, send>>

\* POST /api/messages/upload, with the file multer stored (hasFile) or none;
\* the message is created without insertMessageSchema
PostMessagesUpload(userId, receiverId, itemId, text, hasFile) ==
    /\ IF ~hasFile
       THEN /\ res' = Response(400, "No file uploaded")
            /\ UNCHANGED messages
       ELSE IF itemId = NullText \/ receiverId = NullText
       THEN /\ res' = Response(400, "itemId and receiverId required")
            /\ UNCHANGED messages
       ELSE IF getItemById(itemId).state = "none"
       THEN /\ res' = Response(404, "Item not found")
            /\ UNCHANGED messages
       ELSE IF ~getUserById(receiverId)
       THEN /\ res' = Response(404, "Receiver not found")
            /\ UNCHANGED messages
       ELSE IF /\ receiverId # getItemById(itemId).userId
               /\ \/ getItemById(itemId).userId # userId
                  \/ ~buyerInitiatedContact(userId, receiverId, itemId)
       THEN /\ res' = Response(403, "Not authorized")
            /\ UNCHANGED messages
       ELSE /\ messages' = createMessage(userId, receiverId, itemId,
                               IF text \in {NullText, ""} THEN NullText ELSE text,
                               "/uploads/messages/file")
            /\ res' = Response(201, "")
    /\ UNCHANGED <<items, cartItems, wishlistItems, orders, orderItems, tx, send>>

(* --------------------------- cart routes ------------------------------ *)

\* addToCart that keeps one row per (user, item)
addToCartOnce(u, i) == [cartItems EXCEPT ![u][i] = 1]

addToCart(u, i) == [cartItems EXCEPT ![u][i] = @ + 1]

removeFromCart(u, i) == [cartItems EXCEPT ![u][i] = 0]

\* POST /api/cart
PostCart(u, i) ==
    /\ IF getItemById(i).state = "none"
       THEN /\ res' = Response(404, "Item not found")
            /\ UNCHANGED cartItems
       ELSE /\ cartItems' = addToCart(u, i)
            /\ res' = Response(201, "")
    /\ UNCHANGED <<items, wishlistItems, orders, orderItems, messages, tx, send>>

\* DELETE /api/cart/:itemId
DeleteCart(u, i) ==
    /\ cartItems' = removeFromCart(u, i)
    /\ res' = Response(204, "")
    /\ UNCHANGED <<items, wishlistItems, orders, orderItems, messages, tx, send>>

(* -------------------------- wishlist routes ---------------------------- *)

addToWishlist(u, i) == [wishlistItems EXCEPT ![u][i] = @ + 1]

removeFromWishlist(u, i) == [wishlistItems EXCEPT ![u][i] = 0]

\* POST /api/wishlist
PostWishlist(u, i) ==
    /\ IF getItemById(i).state = "none"
       THEN /\ res' = Response(404, "Item not found")
            /\ UNCHANGED wishlistItems
       ELSE /\ wishlistItems' = addToWishlist(u, i)
            /\ res' = Response(201, "")
    /\ UNCHANGED <<items, cartItems, orders, orderItems, messages, tx, send>>

\* DELETE /api/wishlist/:itemId
DeleteWishlist(u, i) ==
    /\ wishlistItems' = removeFromWishlist(u, i)
    /\ res' = Response(204, "")
    /\ UNCHANGED <<items, cartItems, orders, orderItems, messages, tx, send>>

(* ------------------------ storage.checkout ---------------------------- *)

\* the locals of one storage.checkout call, and the response of its request
\*   rows, snap  userCartItems: the user's cart rows, and per item the joined
\*               items row as the SELECT returned it
\*   done        the valid rows the for-loop has gone through: each has its
\*               order_items row inserted and its item's isSold set, uncommitted
\*   cur         the item of the row the loop is at, between its two statements
\*   total       the total the orders row was inserted with
IdleTx ==
    [pc |-> "idle", userId |-> "", rows |-> EmptyBag,
     snap |-> [i \in ItemIds |-> NoItem], done |-> EmptyBag, cur |-> "",
     total |-> NULL, status |-> 0, message |-> ""]

\* SELECT ... FROM cart_items LEFT JOIN items ... WHERE cart_items.user_id = u
CartJoin(u) ==
    [i \in ItemIds |-> IF cartItems[u][i] > 0 THEN getItemById(i) ELSE NoItem]

\* IsValid that leaves out the rows without a price as well
IsValidPriced(item) ==
    item.state = "live" /\ item.itemType = "sell" /\ ~item.isSold /\ item.price # NULL

\* IsValid without the isSold test
IsValidIgnoringSold(item) ==
    item.state = "live" /\ item.itemType = "sell"

\* row.items && row.items.itemType === 'sell' && !row.items.isSold
IsValid(item) ==
    item.state = "live" /\ item.itemType = "sell" /\ ~item.isSold

\* validItems, as a bag of item ids
validItems(rows, snap) ==
    [i \in ItemIds |-> IF IsValid(snap[i]) THEN rows[i] ELSE 0]

\* A JavaScript number (IEEE double) that stands for an amount of money:
\* val is the amount in cents that exact arithmetic gives, err bounds the
\* distance of the double from it, counted in roundings to nearest.
\* Every double below 2^27 has an ulp of at most 2^-26, so one rounding
\* moves a value by at most 2^-27 (of a unit of currency).
ParseFloat(cents) == [val |-> cents, err |-> IF cents = 0 THEN 0 ELSE 1]

FloatAdd(a, b) == [val |-> a.val + b.val, err |-> a.err + b.err + 1]

\* row.items!.price || "0"
PriceOrZero(price) == IF price = NULL THEN 0 ELSE price

RECURSIVE AddTimes(_, _, _)
AddTimes(sum, n, price) ==
    IF n = 0 THEN sum
    ELSE AddTimes(FloatAdd(sum, ParseFloat(PriceOrZero(price))), n - 1, price)

RECURSIVE Reduce(_, _, _)
Reduce(bag, snap, k) ==
    IF k = 0 THEN ParseFloat(0)
    ELSE AddTimes(Reduce(bag, snap, k - 1), bag[ItemSeq[k]], snap[ItemSeq[k]].price)

\* Total over every row of the cart, as the cart page sums it
TotalOfCart(rows, snap) ==
    Reduce([i \in ItemIds |-> IF snap[i].itemType = "sell" THEN rows[i] ELSE 0],
           snap, Len(ItemSeq))

\* validItems.reduce((sum, row) => sum + parseFloat(row.items!.price || "0"), 0)
Total(rows, snap) == Reduce(validItems(rows, snap), snap, Len(ItemSeq))

\* half a cent, counted in roundings of 2^-27: 0.005 * 2^27, rounded down
HalfCent == 671088

\* total.toString() stored in a decimal(10,2) column: the shortest decimal
\* that reads back as the double, rounded to the nearest cent
Decimal2(f) ==
    IF f.err < HalfCent THEN {f.val} ELSE {f.val - 1, f.val, f.val + 1}

\* CartIsEmpty with the test left out
CartIsEmptySkipped(rows) == FALSE

\* userCartItems.length === 0
CartIsEmpty(rows) == Size(rows) = 0

\* NoneValid with the test left out
NoneValidSkipped(rows, snap) == FALSE

\* NoneValid that tests the cart's rows in place of the valid ones
NoneValidOfCart(rows, snap) == Size(rows) = 0

\* validItems.length === 0
NoneValid(rows, snap) == Size(validItems(rows, snap)) = 0

\* the valid rows the for-loop has still to go through
Remaining(t) ==
    [i \in ItemIds |->
        validItems(t.rows, t.snap)[i] - t.done[i] - IF t.pc = "mark" /\ t.cur = i THEN 1 ELSE 0]

\* the items whose isSold the transaction has set and not committed: it
\* holds their rows locked
Locked(t) ==
    IF t.pc \in {"items", "mark", "clear"} THEN {i \in ItemIds : t.done[i] > 0} ELSE {}

\* the request is answered: of the locals, the cart rows loaded and the rows
\* gone through stay on record
Answered(t, status, message) ==
    [IdleTx EXCEPT !.userId = t.userId, !.rows = t.rows, !.done = t.done,
                   !.status = status, !.message = message]

\* the transaction's statements until now are undone, the request answers 500
Rollback(p, message) ==
    tx' = [tx EXCEPT ![p] = Answered(tx[p], 500, message)]

\* tx.select() of the cart, the two guards, and the total
CheckoutBegin(p, u) ==
    /\ tx[p].pc = "idle"
    /\ LET rows == cartItems[u]
           snap == CartJoin(u)
           t == [IdleTx EXCEPT !.userId = u, !.rows = rows, !.snap = snap]
       IN  IF CartIsEmpty(rows)
           THEN tx' = [tx EXCEPT ![p] = Answered(t, 500, "Cart is empty")]
           ELSE IF NoneValid(rows, snap)
           THEN tx' = [tx EXCEPT ![p] =
                         Answered(t, 500, "No available items to checkout")]
           ELSE /\ Len(orders) + Cardinality({q \in Procs : tx[q].pc # "idle"})
                       < MaxOrders
                /\ tx' = [tx EXCEPT ![p] = [t EXCEPT !.pc = "order"]]
    /\ UNCHANGED <<store, res, send>>

\* CheckoutInsertOrder with db.insert in place of tx.insert: the row is
\* written outside the transaction
CheckoutInsertOrderOnDb(p) ==
    /\ tx[p].pc = "order"
    /\ \E t \in Decimal2(Total(tx[p].rows, tx[p].snap)) :
           /\ tx' = [tx EXCEPT ![p].total = t, ![p].pc = "items"]
           /\ orders' = Append(orders, [userId |-> tx[p].userId, total |-> t])
    /\ UNCHANGED <<items, cartItems, wishlistItems, orderItems, messages, res, send>>

\* tx.insert(orders).values({ userId, total: total.toString() })
CheckoutInsertOrder(p) ==
    /\ tx[p].pc = "order"
    /\ \E t \in Decimal2(Total(tx[p].rows, tx[p].snap)) :
           tx' = [tx EXCEPT ![p].total = t,
                            ![p].pc = IF Size(validItems(tx[p].rows, tx[p].snap)) = 0
                                      THEN "clear" ELSE "items"]
    /\ UNCHANGED <<store, res, send>>

\* tx.insert(orderItems) for the next row of validItems; the SELECT has no
\* ORDER BY, so any row not yet gone through may be the next one.
\* order_items.price is NOT NULL, order_items.item_id references items.
CheckoutInsertOrderItem(p, i) ==
    /\ tx[p].pc = "items"
    /\ Remaining(tx[p])[i] > 0
    /\ IF tx[p].snap[i].price = NULL \/ getItemById(i).state = "none"
       THEN Rollback(p, "insert or update violates constraint")
       ELSE tx' = [tx EXCEPT ![p].cur = i, ![p].pc = "mark"]
    /\ UNCHANGED <<store, res, send>>

\* tx.update(items).set({ isSold: true }).where(eq(items.id, row.items!.id));
\* the UPDATE waits while another transaction holds the row updated
CheckoutMarkSold(p) ==
    /\ tx[p].pc = "mark"
    /\ \A q \in Procs \ {p} : tx[p].cur \notin Locked(tx[q])
    /\ LET t == [tx[p] EXCEPT !.done[tx[p].cur] = @ + 1, !.cur = "", !.pc = "items"]
       IN  tx' = [tx EXCEPT ![p] =
                    [t EXCEPT !.pc = IF Size(Remaining(t)) = 0
                                     THEN "clear" ELSE "items"]]
    /\ UNCHANGED <<store, res, send>>

\* clearCart with a DELETE that has no WHERE: the carts of all users
clearCartOfAllUsers(u) == [v \in Users |-> EmptyBag]

\* clearCart that deletes the rows of the items bought alone
clearCartOfBought(u) ==
    [cartItems EXCEPT ![u] = [i \in ItemIds |-> IF IsValid(items[i]) THEN 0 ELSE @[i]]]

\* tx.delete(cartItems).where(eq(cartItems.userId, userId))
clearCart(u) == [cartItems EXCEPT ![u] = EmptyBag]

\* markSold without the UPDATE
markSoldNoRow(done) == items

\* markSold with an UPDATE that has no WHERE: every row of items is set
markSoldEveryRow(done) ==
    [i \in ItemIds |->
        IF items[i].state = "live" THEN [items[i] EXCEPT !.isSold = TRUE] ELSE items[i]]

\* the transaction's UPDATEs of items, applied
markSold(done) ==
    [i \in ItemIds |->
        IF done[i] > 0 /\ items[i].state = "live"
        THEN [items[i] EXCEPT !.isSold = TRUE] ELSE items[i]]

RECURSIVE Repeat(_, _)
Repeat(row, n) == IF n = 0 THEN <<>> ELSE <<row>> \o Repeat(row, n - 1)

RECURSIVE OrderItemRowsAtCommit(_, _, _, _)
\* OrderItemRows with the prices read anew when the transaction commits
OrderItemRowsAtCommit(orderId, done, snap, k) ==
    IF k = 0 THEN <<>>
    ELSE OrderItemRowsAtCommit(orderId, done, snap, k - 1) \o
         Repeat([orderId |-> orderId, itemId |-> ItemSeq[k],
                 price |-> items[ItemSeq[k]].price], done[ItemSeq[k]])

RECURSIVE OrderItemRows(_, _, _, _)
\* the transaction's order_items rows: one per row gone through, with the
\* price of the joined items row
OrderItemRows(orderId, done, snap, k) ==
    IF k = 0 THEN <<>>
    ELSE OrderItemRows(orderId, done, snap, k - 1) \o
         Repeat([orderId |-> orderId, itemId |-> ItemSeq[k],
                 price |-> snap[ItemSeq[k]].price], done[ItemSeq[k]])

\* the DELETE of the user's cart rows and the COMMIT that follows it.  (What
\* can happen between the two, an insert into the cart or a statement that
\* waits for the deleted rows, happens after the COMMIT just as well.)
CheckoutCommit(p) ==
    /\ tx[p].pc = "clear"
    /\ cartItems' = clearCart(tx[p].userId)
    /\ items' = markSold(tx[p].done)
    /\ orders' = Append(orders, [userId |-> tx[p].userId, total |-> tx[p].total])
    /\ orderItems' = orderItems \o
            OrderItemRows(Len(orders) + 1, tx[p].done, tx[p].snap, Len(ItemSeq))
    /\ tx' = [tx EXCEPT ![p] = Answered(tx[p], 201, "")]
    /\ UNCHANGED <<wishlistItems, messages, res, send>>

\* a statement of the transaction fails (the connection drops, the server
\* reports an error or a deadlock): the callback throws, drizzle rolls back
CheckoutAbort(p) ==
    /\ tx[p].pc \in {"order", "items", "mark", "clear"}
    /\ Rollback(p, "statement failed")
    /\ UNCHANGED <<store, res, send>>

(* --------------------------- specification ---------------------------- *)

\* the listings the marketplace opens with: one item for sale, one for
\* barter, a second one for sale
Catalog ==
    [i \in ItemIds |->
        CASE i = "A" -> NewItem("u1", "sell", NullText, 1500)
          [] i = "B" -> NewItem("u1", "barter", "a book", NULL)
          [] i = "C" -> NewItem("u2", "sell", NullText, 1000)
          [] OTHER -> NoItem]

Init ==
    /\ items = Catalog
    /\ cartItems = [u \in Users |-> EmptyBag]
    /\ wishlistItems = [u \in Users |-> EmptyBag]
    /\ orders = <<>>
    /\ orderItems = <<>>
    /\ messages = <<>>
    /\ tx = [p \in Procs |-> IdleTx]
    /\ res = NoResponse
    /\ send = IdleSend

\* the cart_items table has room for a row, within the bound
CartRoom == RowCount(cartItems, Len(UserSeq)) < MaxCart

\* one checkout request at a time
Next ==
    \/ \E u \in Actors, i \in KnownIds : CartRoom /\ PostCart(u, i)
    \/ \E u \in Actors : CheckoutBegin("p1", u)
    \/ CheckoutInsertOrder("p1")
    \/ \E i \in KnownIds : CheckoutInsertOrderItem("p1", i)
    \/ CheckoutMarkSold("p1")
    \/ CheckoutCommit("p1")
    \/ CheckoutAbort("p1")

Spec == Init /\ [][Next]_vars

\* cart rows the store may hold while checkout requests run side by side
RaceCart == 2

RaceRoom == RowCount(cartItems, Len(UserSeq)) < RaceCart

\* checkout requests side by side
NextRace ==
    \/ \E u \in Actors, i \in KnownIds : RaceRoom /\ PostCart(u, i)
    \/ \E p \in Procs, u \in Actors : CheckoutBegin(p, u)
    \/ \E p \in Procs : CheckoutInsertOrder(p)
    \/ \E p \in Procs, i \in KnownIds : CheckoutInsertOrderItem(p, i)
    \/ \E p \in Procs : CheckoutMarkSold(p)
    \/ \E p \in Procs : CheckoutCommit(p)
    \/ \E p \in Procs : CheckoutAbort(p)

SpecRace == Init /\ [][NextRace]_vars

(* listings with an item for sale that has no price, and wishlists *)

\* POST /api/items stores an item for sale without a price: B here
Listings ==
    [i \in ItemIds |->
        CASE i = "A" -> NewItem("u1", "sell", NullText, 1500)
          [] i = "B" -> NewItem("u1", "sell", NullText, NULL)
          [] i = "C" -> NewItem("u2", "sell", NullText, 1000)
          [] OTHER -> NoItem]

\* the wishlist_items rows the users have added
Wishes ==
    [u \in Users |->
        [i \in ItemIds |->
            IF <<u, i>> \in {<<"u1", "C">>, <<"u2", "A">>, <<"u2", "B">>, <<"u3", "A">>}
            THEN 1 ELSE 0]]

InitListings ==
    /\ items = Listings
    /\ cartItems = [u \in Users |-> EmptyBag]
    /\ wishlistItems = Wishes
    /\ orders = <<>>
    /\ orderItems = <<>>
    /\ messages = <<>>
    /\ tx = [p \in Procs |-> IdleTx]
    /\ res = NoResponse
    /\ send = IdleSend

SpecListings == InitListings /\ [][Next]_vars

(* the whole marketplace, from an empty store, one checkout at a time *)

\* rows of cart_items, wishlist_items and messages together
MaxRows == 1

\* the ids the items of this specification are created with
Listable == {"A"}

Rows == RowCount(cartItems, Len(UserSeq)) + RowCount(wishlistItems, Len(UserSeq))
            + Len(messages)

InitMarket ==
    /\ items = [i \in ItemIds |-> NoItem]
    /\ cartItems = [u \in Users |-> EmptyBag]
    /\ wishlistItems = [u \in Users |-> EmptyBag]
    /\ orders = <<>>
    /\ orderItems = <<>>
    /\ messages = <<>>
    /\ tx = [p \in Procs |-> IdleTx]
    /\ res = NoResponse
    /\ send = IdleSend

NextMarket ==
    \/ \E u \in Actors, in \in ItemInputs :
            FreshId \in Listable /\ PostItems(u, in)
    \/ \E u \in Actors, i \in KnownIds, in \in UpdateInputs : PutItem(u, i, in)
    \/ \E u \in Actors, i \in KnownIds : DeleteItem(u, i)
    \/ \E u \in Actors, r \in Actors \cup {"nobody"}, i \in KnownIds, text \in Texts :
            Rows < MaxRows /\ PostMessages(u, r, i, text)
    \/ \E u \in Actors, i \in KnownIds : Rows < MaxRows /\ PostCart(u, i)
    \/ \E u \in Actors, i \in KnownIds : DeleteCart(u, i)
    \/ \E u \in Actors, i \in KnownIds : Rows < MaxRows /\ PostWishlist(u, i)
    \/ \E u \in Actors, i \in KnownIds : DeleteWishlist(u, i)
    \/ \E u \in Actors : CheckoutBegin("p1", u)
    \/ CheckoutInsertOrder("p1")
    \/ \E i \in KnownIds : CheckoutInsertOrderItem("p1", i)
    \/ CheckoutMarkSold("p1")
    \/ CheckoutCommit("p1")
    \/ CheckoutAbort("p1")

SpecMarket == InitMarket /\ [][NextMarket]_vars

(* messages about two listings of one owner, among three users *)

\* rows of messages
MaxMsgs == 2

InitMsg ==
    /\ items = [i \in ItemIds |->
                   CASE i = "A" -> NewItem("u1", "sell", NullText, 1500)
                     [] i = "B" -> NewItem("u1", "barter", "a book", NULL)
                     [] OTHER -> NoItem]
    /\ cartItems = [u \in Users |-> EmptyBag]
    /\ wishlistItems = [u \in Users |-> EmptyBag]
    /\ orders = <<>>
    /\ orderItems = <<>>
    /\ messages = <<>>
    /\ tx = [p \in Procs |-> IdleTx]
    /\ res = NoResponse
    /\ send = IdleSend

NextMsg ==
    \/ \E u \in Users, r \in Users \cup {"nobody"}, i \in KnownIds, text \in Texts :
            Len(messages) < MaxMsgs /\ PostMessages(u, r, i, text)
    \/ \E u \in Users, r \in Users \cup {"nobody"}, i \in KnownIds, text \in Texts :
            Len(messages) < MaxMsgs /\ PostMessagesUpload(u, r, i, text, TRUE)
    \/ \E u \in Users : PostMessagesUpload(u, NullText, NullText, NullText, FALSE)
    \/ \E u \in Users, i \in KnownIds : DeleteItem(u, i)

SpecMsg == InitMsg /\ [][NextMsg]_vars

(* message sends and item deletions, the statements of a send apart *)

NextSend ==
    \/ \E u \in Users, r \in Users \cup {"nobody"}, i \in KnownIds, text \in Texts :
            Len(messages) < MaxMsgs /\ PostMessagesReads(u, r, i, text)
    \/ PostMessagesInsert
    \/ \E u \in Users, i \in KnownIds : DeleteItem(u, i)

SpecSend == InitMsg /\ [][NextSend]_vars

(* one listing: messages about it, updates of it, and its sale *)

InitThread ==
    /\ items = [i \in ItemIds |->
                   IF i = "A" THEN NewItem("u1", "sell", NullText, 1500) ELSE NoItem]
    /\ cartItems = [u \in Users |-> EmptyBag]
    /\ wishlistItems = [u \in Users |-> EmptyBag]
    /\ orders = <<>>
    /\ orderItems = <<>>
    /\ messages = <<>>
    /\ tx = [p \in Procs |-> IdleTx]
    /\ res = NoResponse
    /\ send = IdleSend

NextThread ==
    \/ \E u \in Actors, r \in Actors, i \in KnownIds, text \in Texts :
            Len(messages) < MaxMsgs /\ PostMessages(u, r, i, text)
    \/ \E u \in Actors, i \in KnownIds, in \in UpdateInputs : PutItem(u, i, in)
    \/ \E u \in Actors, i \in KnownIds : DeleteItem(u, i)
    \/ \E u \in Actors, i \in KnownIds :
            RowCount(cartItems, Len(UserSeq)) < MaxRows /\ PostCart(u, i)
    \/ \E u \in Actors : CheckoutBegin("p1", u)
    \/ CheckoutInsertOrder("p1")
    \/ \E i \in KnownIds : CheckoutInsertOrderItem("p1", i)
    \/ CheckoutMarkSold("p1")
    \/ CheckoutCommit("p1")
    \/ CheckoutAbort("p1")

SpecThread == InitThread /\ [][NextThread]_vars

(* messages about one listing whose owner other users have written to *)

\* rows of messages
MaxPeerMsgs == 3

\* the first contacts of the two users who are not the owner
Contacts ==
    <<[senderId |-> "u2", receiverId |-> "u1", itemId |-> "A",
       messageText |-> "hi", fileUrl |-> NullText],
      [senderId |-> "u3", receiverId |-> "u1", itemId |-> "A",
       messageText |-> "hi", fileUrl |-> NullText]>>

InitPeers ==
    /\ items = [i \in ItemIds |->
                   IF i = "A" THEN NewItem("u1", "sell", NullText, 1500) ELSE NoItem]
    /\ cartItems = [u \in Users |-> EmptyBag]
    /\ wishlistItems = [u \in Users |-> EmptyBag]
    /\ orders = <<>>
    /\ orderItems = <<>>
    /\ \E n \in 1..Len(Contacts) : messages = SubSeq(Contacts, 1, n)
    /\ tx = [p \in Procs |-> IdleTx]
    /\ res = NoResponse
    /\ send = IdleSend

NextPeers ==
    \/ \E u \in Users, r \in Users \cup {"nobody"}, i \in KnownIds, text \in Texts :
            Len(messages) < MaxPeerMsgs /\ PostMessages(u, r, i, text)
    \/ \E u \in Users, r \in Users \cup {"nobody"}, i \in KnownIds, text \in Texts :
            Len(messages) < MaxPeerMsgs /\ PostMessagesUpload(u, r, i, text, TRUE)
    \/ \E u \in Users : PostMessagesUpload(u, NullText, NullText, NullText, FALSE)
    \/ \E u \in Users, i \in KnownIds : DeleteItem(u, i)

SpecPeers == InitPeers /\ [][NextPeers]_vars

(* ------------------------------ claims -------------------------------- *)

\* the step on which the checkout of p commits and answers 201
Succeeds(p) ==
    tx[p].pc = "clear" /\ tx'[p].pc = "idle" /\ tx'[p].status = 201

\* the order_items rows a step adds
NewRows == (Len(orderItems) + 1)..Len(orderItems')

\* C1: when two different users hold the same unsold item for sale in their
\* carts and check out side by side, at most one of the two checkouts creates
\* an order_items row for it: no item has order_items rows in the orders of
\* two different users.
C1_OneBuyerPerItem ==
    \A k1, k2 \in DOMAIN orderItems :
        orderItems[k1].itemId = orderItems[k2].itemId =>
            orders[orderItems[k1].orderId].userId = orders[orderItems[k2].orderId].userId

\* C2: checkout is atomic: a checkout that fails at any of its writes leaves
\* the store as it was; no step of a checkout other than its commit changes
\* items, carts, wishlists, orders, order items or messages, and a checkout
\* that ends without committing answers 500.
C2_Atomic ==
    [][\A p \in Procs :
          (tx'[p] # tx[p] /\ ~Succeeds(p)) =>
              /\ store' = store
              /\ (tx[p].pc # "idle" /\ tx'[p].pc = "idle") => tx'[p].status = 500]_vars

\* a checkout failed after order_items rows were inserted and items marked:
\* the items are unsold, the cart rows are there, no order is there
C2_Witness ==
    /\ tx["p1"].status = 500
    /\ orders = <<>> /\ orderItems = <<>>
    /\ \E i \in ItemIds :
          /\ tx["p1"].done[i] > 0
          /\ ~items[i].isSold
          /\ cartItems[tx["p1"].userId][i] > 0

\* C3: a checkout never creates an order_items row for an item whose isSold
\* is true when the checkout's transaction starts, whatever the cart holds
\* and whatever happened before.
C3_NeverSellsSold ==
    [][\A p \in Procs :
          Succeeds(p) =>
              \A k \in NewRows :
                  /\ ~tx[p].snap[orderItems'[k].itemId].isSold
                  /\ ~items[orderItems'[k].itemId].isSold]_vars

\* a checkout succeeded whose cart held an item for sale that was sold before
C3_Witness ==
    /\ tx["p1"].status = 201
    /\ \E i, j \in ItemIds :
          /\ tx["p1"].rows[i] > 0 /\ tx["p1"].done[i] = 0
          /\ items[i].itemType = "sell" /\ items[i].isSold
          /\ tx["p1"].done[j] > 0
          /\ \E k \in DOMAIN orderItems :
                orderItems[k].itemId = j /\ orderItems[k].orderId = Len(orders)
          /\ \A k \in DOMAIN orderItems :
                orderItems[k].itemId = i => orderItems[k].orderId < Len(orders)

\* the joined items row of a cart row is a valid entry: for sale and unsold
Sellable(i) ==
    items[i].state = "live" /\ items[i].itemType = "sell" /\ ~items[i].isSold

\* the step on which p's checkout request of user u runs its SELECT
Starts(p, u) ==
    tx[p].pc = "idle" /\ tx'[p] # tx[p] /\ tx'[p].userId = u

\* C4: checkout by a user whose cart has no entries fails with the empty-cart
\* error, creates no order and no order item, and leaves every item, cart and
\* wishlist unchanged, however many times it is repeated.
C4_EmptyCart ==
    [][\A p \in Procs, u \in Users :
          (Starts(p, u) /\ Size(cartItems[u]) = 0) =>
              /\ tx'[p].pc = "idle"
              /\ tx'[p].status = 500
              /\ tx'[p].message = "Cart is empty"
              /\ store' = store]_vars

\* a checkout met an empty cart while the user's wishlist had a row
C4_Witness ==
    /\ tx["p1"].message = "Cart is empty"
    /\ tx["p1"].status = 500
    /\ Size(tx["p1"].rows) = 0
    /\ Size(wishlistItems[tx["p1"].userId]) > 0
    /\ orders = <<>> /\ orderItems = <<>>

\* C5: checkout by a user whose cart is not empty but holds no valid entry
\* (every entry is a barter item or an item already sold) fails with the
\* no-sellable-items error, creates no order, and leaves the whole cart and
\* every item unchanged.
C5_NoneSellable ==
    [][\A p \in Procs, u \in Users :
          (/\ Starts(p, u)
           /\ Size(cartItems[u]) > 0
           /\ \A i \in ItemIds : cartItems[u][i] > 0 => ~Sellable(i)) =>
              /\ tx'[p].pc = "idle"
              /\ tx'[p].status = 500
              /\ tx'[p].message = "No available items to checkout"
              /\ store' = store]_vars

\* a checkout met a cart whose only entry was sold before, and the entry is
\* still in the cart
C5_Witness ==
    /\ tx["p1"].message = "No available items to checkout"
    /\ tx["p1"].status = 500
    /\ \E i \in ItemIds :
          /\ tx["p1"].rows[i] > 0
          /\ cartItems[tx["p1"].userId][i] > 0
          /\ items[i].isSold

\* C6: after every successful checkout by a user, the user has no cart
\* entries at all, the entries left out of the order included.
C6_CartCleared ==
    [][\A p \in Procs :
          Succeeds(p) => Size(cartItems'[tx[p].userId]) = 0]_vars

\* a checkout succeeded that left entries of its cart out of the order, and
\* the cart is empty
C6_Witness ==
    /\ tx["p1"].status = 201
    /\ Size(tx["p1"].done) > 0
    /\ Size(tx["p1"].rows) > Size(tx["p1"].done)
    /\ Size(cartItems[tx["p1"].userId]) = 0

RECURSIVE SumOfPrices(_, _)
\* the sum of price over the first k order_items rows that belong to the order
SumOfPrices(orderId, k) ==
    IF k = 0 THEN 0
    ELSE SumOfPrices(orderId, k - 1) +
         IF orderItems[k].orderId = orderId THEN orderItems[k].price ELSE 0

NewRowsOf(i) == Cardinality({k \in NewRows : orderItems'[k].itemId = i})

\* C8: a successful checkout of a cart that mixes valid entries with barter
\* items and items already sold makes exactly one order, whose order_items
\* rows are exactly the valid entries' items at their prices, sets isSold on
\* exactly those items, and leaves the barter items and the items already
\* sold unchanged.
C8_MixedCart ==
    [][\A p \in Procs :
          Succeeds(p) =>
              /\ Len(orders') = Len(orders) + 1
              /\ SubSeq(orders', 1, Len(orders)) = orders
              /\ orders'[Len(orders')].userId = tx[p].userId
              /\ SubSeq(orderItems', 1, Len(orderItems)) = orderItems
              /\ \A k \in NewRows :
                    /\ orderItems'[k].orderId = Len(orders')
                    /\ orderItems'[k].price = items[orderItems'[k].itemId].price
              /\ \A i \in ItemIds :
                    IF tx[p].rows[i] > 0 /\ Sellable(i)
                    THEN /\ NewRowsOf(i) = tx[p].rows[i]
                         /\ items'[i] = [items[i] EXCEPT !.isSold = TRUE]
                    ELSE /\ NewRowsOf(i) = 0
                         /\ items'[i] = items[i]]_vars

\* a checkout succeeded whose cart held an item it bought, a barter item and
\* an item for sale that was sold before: the barter item is unsold, the
\* last order has the bought item alone
C8_Witness ==
    /\ tx["p1"].status = 201
    /\ \E a, b, c \in ItemIds :
          /\ tx["p1"].rows[a] > 0 /\ tx["p1"].done[a] > 0 /\ items[a].isSold
          /\ tx["p1"].rows[b] > 0 /\ items[b].itemType = "barter" /\ ~items[b].isSold
          /\ tx["p1"].rows[c] > 0 /\ tx["p1"].done[c] = 0
          /\ items[c].itemType = "sell" /\ items[c].isSold
          /\ \A k \in DOMAIN orderItems :
                orderItems[k].orderId = Len(orders) => orderItems[k].itemId = a
    /\ Size(cartItems[tx["p1"].userId]) = 0

\* C9: for every item, isSold is false at creation, becomes true only on the
\* commit of a successful checkout that includes the item, never by item
\* create, item update, cart, wishlist or message operations, and once true
\* never returns to false.
C9_IsSold ==
    [][\A i \in ItemIds :
          /\ (items[i].state = "none" /\ items'[i].state = "live") => ~items'[i].isSold
          /\ (~items[i].isSold /\ items'[i].isSold) =>
                \E p \in Procs : Succeeds(p) /\ tx[p].done[i] > 0
          /\ items[i].isSold => items'[i].isSold]_vars

\* an item was sold by a checkout and then updated by its owner to a barter
\* item: it is still sold
C9_Witness ==
    \E i \in ItemIds :
        /\ items[i].isSold
        /\ items[i].itemType = "barter"
        /\ tx["p1"].status = 201 /\ tx["p1"].done[i] > 0
        /\ res = 200

\* C10: a message send about an existing item whose receiver is the item's
\* owner is always authorized, for any sender and any history of messages,
\* the first contact of a new buyer and the owner writing to themself
\* included: the request is never answered 403, and with a text it is
\* answered 201 and the message is stored.
C10_ToOwner ==
    [][\A s \in Users, i \in ItemIds, text \in Texts :
          (/\ items[i].state = "live"
           /\ PostMessages(s, items[i].userId, i, text)) =>
              /\ res' # 403
              /\ NonBlank(text) =>
                    /\ res' = 201
                    /\ messages' = Append(messages,
                          [senderId |-> s, receiverId |-> items[i].userId, itemId |-> i,
                           messageText |-> text, fileUrl |-> NullText])]_vars

\* the owner wrote to themself about the item before anyone else wrote, and
\* then a buyer made a first contact
C10_Witness ==
    /\ Len(messages) = 2
    /\ res = 201
    /\ \E i \in ItemIds :
          /\ items[i].state = "live"
          /\ messages[1].itemId = i /\ messages[2].itemId = i
          /\ messages[1].senderId = items[i].userId
          /\ messages[1].receiverId = items[i].userId
          /\ messages[2].senderId # items[i].userId
          /\ messages[2].receiverId = items[i].userId

\* the store holds a message about item i that user r sent to the item's owner
Contact(r, i) ==
    \E k \in DOMAIN messages :
        /\ messages[k].itemId = i
        /\ messages[k].senderId = r
        /\ messages[k].receiverId = items[i].userId

\* C11: a message send from an item's owner to a user other than the owner
\* is authorized if and only if the store holds a message about that item
\* from that user to the owner; messages about other items, and messages of
\* other buyers about the item, do not authorize it.  An authorized send with
\* a text is stored.
C11_OwnerReply ==
    [][\A r \in Users, i \in ItemIds, text \in Texts :
          (items[i].state = "live" /\ r # items[i].userId) =>
              /\ PostMessages(items[i].userId, r, i, text) =>
                    /\ res' = 403 <=> ~Contact(r, i)
                    /\ (Contact(r, i) /\ NonBlank(text)) =>
                          /\ res' = 201
                          /\ messages' = Append(messages,
                                [senderId |-> items[i].userId, receiverId |-> r,
                                 itemId |-> i, messageText |-> text,
                                 fileUrl |-> NullText])
              /\ PostMessagesUpload(items[i].userId, r, i, text, TRUE) =>
                    /\ res' = 403 <=> ~Contact(r, i)
                    /\ Contact(r, i) => res' = 201]_vars

\* a buyer wrote to the owner about one item, and the owner's reply to that
\* buyer about that item is stored
C11_Witness ==
    /\ Len(messages) = 2
    /\ res = 201
    /\ \E i \in ItemIds :
          /\ items[i].state = "live"
          /\ messages[1].itemId = i /\ messages[2].itemId = i
          /\ messages[1].senderId # items[i].userId
          /\ messages[1].receiverId = items[i].userId
          /\ messages[2].senderId = items[i].userId
          /\ messages[2].receiverId = messages[1].senderId

\* C12: a message send about an item in which neither the sender nor the
\* receiver is the item's owner is always rejected, whatever messages the
\* store holds: it stores nothing, and it is answered 403 when the receiver
\* is a user (404 when there is no such user); so no stored message about an
\* item has both its sender and its receiver different from the item's owner.
C12_OwnerThreadsOnly ==
    [][/\ \A s \in Users, r \in Users \cup {"nobody"}, i \in ItemIds, text \in Texts :
            (/\ items[i].state = "live"
             /\ s # items[i].userId /\ r # items[i].userId
             /\ \/ PostMessages(s, r, i, text)
                \/ PostMessagesUpload(s, r, i, text, TRUE)) =>
                /\ messages' = messages
                /\ res' = IF r \in Users THEN 403 ELSE 404
       /\ \A k \in DOMAIN messages' :
            /\ items'[messages'[k].itemId].state = "live"
            /\ \/ messages'[k].senderId = items'[messages'[k].itemId].userId
               \/ messages'[k].receiverId = items'[messages'[k].itemId].userId]_vars

\* every user who is not the owner has written to the owner about every
\* item there is, so that every send to or from the owner is authorized, and
\* the latest send was answered 403: it was between two users who are not
\* the owner
C12_Witness ==
    /\ res = 403
    /\ \E i \in ItemIds : items[i].state = "live"
    /\ \A i \in ItemIds :
          items[i].state = "live" =>
              \A r \in Users \ {items[i].userId} : Contact(r, i)

\* the rule of the specification denies the send of s to r about item i
Denied(s, r, i) ==
    r # items[i].userId /\ (s # items[i].userId \/ ~Contact(r, i))

\* C13: a message send that is rejected (not found, authorization denied,
\* validation failure) creates no message row and leaves the whole store
\* unchanged; not found is answered 404 and an authorization denial 403, an
\* outcome distinct from not found.
C13_RejectedSend ==
    [][\A s \in Users, r \in Users \cup {"nobody"}, i \in KnownIds, text \in Texts :
          /\ PostMessages(s, r, i, text) =>
                /\ res' \in {201, 400, 403, 404}
                /\ res' # 201 => store' = store
                /\ (items[i].state # "live" \/ r \notin Users) <=> res' = 404
                /\ (items[i].state = "live" /\ r \in Users /\ Denied(s, r, i))
                      <=> res' = 403
                /\ (items[i].state = "live" /\ r \in Users /\ ~Denied(s, r, i)
                      /\ ~NonBlank(text)) <=> res' = 400
          /\ PostMessagesUpload(s, r, i, text, TRUE) =>
                (res' # 201 => store' = store)]_vars

\* a send was denied while the store held a message: the message is there,
\* alone
C13_Witness ==
    /\ res = 403
    /\ Len(messages) = 1
    /\ items[messages[1].itemId].state = "live"

\* C14: a message send about an item that does not exist, an item deleted
\* while the send is under way included, is answered 404 and creates no
\* message row; the item is looked up before the authorization, so a request
\* that fails both is answered 404, never 403.
C14_NotFoundFirst ==
    [][/\ \A s \in Users, r \in Users \cup {"nobody"}, i \in KnownIds, text \in Texts :
            (items[i].state # "live" /\ PostMessagesReads(s, r, i, text)) =>
                res' = 404 /\ store' = store
       /\ (PostMessagesInsert /\ items[send.itemId].state # "live") =>
                res' = 404 /\ store' = store]_vars

\* C15: buyer-initiated contact is absorbing: once a message from a buyer to
\* the owner about an item is stored, it stays stored for as long as the item
\* exists, and every owner-to-buyer send about the item is authorized, after
\* any further message sends, item updates, cart operations and checkouts,
\* the item's sale included.
C15_Absorbing ==
    [][\A b \in Users, i \in ItemIds :
          (items[i].state = "live" /\ b # items[i].userId /\ Contact(b, i)) =>
              /\ items'[i].state = "live" =>
                    /\ items'[i].userId = items[i].userId
                    /\ Contact(b, i)'
              /\ \A text \in Texts :
                    PostMessages(items[i].userId, b, i, text) =>
                        /\ res' # 403
                        /\ NonBlank(text) => res' = 201]_vars

\* a buyer wrote to the owner about an item, the item was sold and its
\* owner made it a barter item, and the owner's reply to the buyer is stored
C15_Witness ==
    /\ Len(messages) = 2
    /\ res = 201
    /\ \E i \in ItemIds :
          /\ items[i].state = "live" /\ items[i].isSold /\ items[i].itemType = "barter"
          /\ messages[1] = [senderId |-> "u2", receiverId |-> items[i].userId,
                            itemId |-> i, messageText |-> "hi", fileUrl |-> NullText]
          /\ messages[2] = [senderId |-> items[i].userId, receiverId |-> "u2",
                            itemId |-> i, messageText |-> "hi", fileUrl |-> NullText]

\* C16: every stored message has a non-blank text or a non-blank file
\* reference, or both: no sequence of text sends and file-upload sends stores
\* a message with neither.
C16_TextOrFile ==
    \A k \in DOMAIN messages :
        \/ messages[k].messageText \notin {NullText, "", " "}
        \/ messages[k].fileUrl \notin {NullText, "", " "}

\* a text send and an upload without a text are stored: one message has a
\* text and no file, the other a file and no text
C16_Witness ==
    \E k1, k2 \in DOMAIN messages :
        /\ messages[k1].messageText = "hi" /\ messages[k1].fileUrl = NullText
        /\ messages[k2].messageText \in {NullText, " "}
        /\ messages[k2].fileUrl # NullText

\* C17: an update or delete request for an item made by a user who is not
\* the item's owner is answered 403 and leaves the item, and every message,
\* cart entry and wishlist entry that references it, unchanged; an item's
\* owner never changes through an update.
C17_OwnerOnly ==
    [][/\ \A u \in Users, i \in KnownIds :
            (items[i].state = "live" /\ u # items[i].userId) =>
                /\ DeleteItem(u, i) => (res' = 403 /\ store' = store)
                /\ \A in \in UpdateInputs :
                      PutItem(u, i, in) => (res' = 403 /\ store' = store)
       /\ \A i \in KnownIds :
            (items[i].state = "live" /\ items'[i].state = "live") =>
                items'[i].userId = items[i].userId]_vars

\* a user who is not the owner asked to update or delete an item that a row
\* of the cart, the wishlist or the messages references: the item and the
\* row are there
C17_Witness ==
    /\ res = 403
    /\ Rows = MaxRows
    /\ \E i \in ItemIds :
          /\ items[i].state = "live"
          /\ \/ \E u \in Users : cartItems[u][i] > 0 \/ wishlistItems[u][i] > 0
             \/ \E k \in DOMAIN messages : messages[k].itemId = i

\* C18: after any sequence of item creations and item updates that the
\* server accepts, every item for sale has a price and every barter item has
\* an expected exchange.
C18_PriceOrExchange ==
    \A i \in ItemIds :
        items[i].state = "live" =>
            /\ items[i].itemType = "sell" => items[i].price # NULL
            /\ items[i].itemType = "barter" => items[i].expectedExchange # NullText

\* C19: every checkout invocation creates at most one order, a successful
\* one creates exactly one, and every order in the store has at least one
\* order_items row: the orders grow by one row on the commit of a checkout
\* and on no other step.
C19_OneOrder ==
    [][/\ Len(orders') \in {Len(orders), Len(orders) + 1}
       /\ SubSeq(orders', 1, Len(orders)) = orders
       /\ (\E p \in Procs : Succeeds(p)) <=> Len(orders') = Len(orders) + 1
       /\ \A o \in DOMAIN orders' :
             \E k \in DOMAIN orderItems' : orderItems'[k].orderId = o]_vars

\* two checkouts succeeded, and one order each is there, with its rows of
\* order_items
C19_Witness ==
    /\ Len(orders) = 2
    /\ tx["p1"].status = 201
    /\ \A o \in DOMAIN orders : \E k \in DOMAIN orderItems : orderItems[k].orderId = o
    /\ \A k \in DOMAIN orderItems : orderItems[k].orderId \in DOMAIN orders

\* C20: the price of an order_items row equals the price its item had when
\* the checkout that created the order read it, and no later operation
\* changes the row, a later update of the item's price by its owner included.
C20_PriceSnapshot ==
    [][/\ SubSeq(orderItems', 1, Len(orderItems)) = orderItems
       /\ \A p \in Procs :
             /\ (tx[p].pc = "idle" /\ tx'[p].pc = "order") =>
                   \A i \in ItemIds :
                       tx'[p].rows[i] > 0 => tx'[p].snap[i].price = items[i].price
             /\ (tx[p].pc # "idle" /\ tx'[p].pc # "idle") =>
                   tx'[p].snap = tx[p].snap
             /\ Succeeds(p) =>
                   \A k \in NewRows :
                       orderItems'[k].price = tx[p].snap[orderItems'[k].itemId].price]_vars

\* an item was sold at one price and its owner has set another since: the
\* order_items row has the price of the sale
C20_Witness ==
    /\ res = 200
    /\ tx["p1"].status = 201
    /\ \E k \in DOMAIN orderItems :
          /\ items[orderItems[k].itemId].isSold
          /\ items[orderItems[k].itemId].price # NULL
          /\ orderItems[k].price # items[orderItems[k].itemId].price
\* C21: once an item is sold its price cannot change: no step, an update of
\* the item by its owner included, alters the price of a sold item.
C21_SoldPriceFixed ==
    [][\A i \in ItemIds :
          (items[i].state = "live" /\ items[i].isSold /\ items'[i].state = "live")
              => items'[i].price = items[i].price]_vars

\* C22: add-to-cart for an existing item answers 201 and adds one row for
\* (user, item), whether the item is sold and whether the user's cart has the
\* item already; for an item that does not exist it answers 404 and adds no row.
C22_AddToCart ==
    [][\A u \in Actors, i \in KnownIds :
          PostCart(u, i) =>
              IF items[i].state = "live"
              THEN /\ res' = 201
                   /\ cartItems'[u][i] = cartItems[u][i] + 1
                   /\ \A v \in Users, j \in ItemIds :
                         <<v, j>> # <<u, i>> => cartItems'[v][j] = cartItems[v][j]
              ELSE /\ res' = 404
                   /\ cartItems' = cartItems]_vars

\* the last request was an add-to-cart that put a second row for a sold item
\* into a cart
C22_Witness ==
    /\ res = 201
    /\ \E u \in Actors, i \in ItemIds :
          /\ items[i].isSold
          /\ cartItems[u][i] >= 2
          /\ tx["p1"].pc = "idle"
\* every row of messages, cart_items, wishlist_items and order_items
\* references an item that exists
NoDanglingRow ==
    /\ \A k \in DOMAIN messages : items[messages[k].itemId].state = "live"
    /\ \A k \in DOMAIN orderItems : items[orderItems[k].itemId].state = "live"
    /\ \A u \in Users, i \in ItemIds :
          (cartItems[u][i] > 0 \/ wishlistItems[u][i] > 0) => items[i].state = "live"

\* C23: after every step no message, cart row, wishlist row or order item
\* references an item that does not exist; the owner's delete of an item that
\* no order item references removes the item and the messages, cart rows and
\* wishlist rows that reference it, and the owner's delete of an item that an
\* order item references fails and changes nothing.
C23_NoDanglingRow ==
    [][/\ NoDanglingRow'
       /\ \A u \in Actors, i \in KnownIds :
             (DeleteItem(u, i) /\ items[i].state = "live" /\ items[i].userId = u) =>
                 IF Referenced(i)
                 THEN res' = 500 /\ store' = store
                 ELSE /\ res' = 204
                      /\ items'[i].state # "live"
                      /\ \A k \in DOMAIN messages' : messages'[k].itemId # i
                      /\ \A v \in Users :
                            cartItems'[v][i] = 0 /\ wishlistItems'[v][i] = 0]_vars

\* the owner's delete of a sold item has failed, and the item and its order
\* item are in place
C23_Witness ==
    /\ res = 500
    /\ tx["p1"].pc = "idle"
    /\ \E i \in ItemIds :
          /\ items[i].state = "live"
          /\ Referenced(i)
          /\ \E u \in Users : wishlistItems[u][i] > 0
\* C24: for every sender, receiver, existing item and stored messages, the
\* upload send is answered 403 exactly when the authorization of the text send
\* denies the same send, and an upload answered 403 creates no row.
C24_SameAuthorization ==
    [][\A s \in Users, r \in Users, i \in KnownIds, text \in Texts :
          (items[i].state = "live" /\ PostMessagesUpload(s, r, i, text, TRUE)) =>
              /\ res' = 403 <=> MessageDenied(s, r, items[i], i) # ""
              /\ res' = 403 => store' = store]_vars

\* the owner's upload to a user who has not written about the item was denied,
\* and an upload of the owner to one who has is stored
C24_Witness ==
    /\ res = 403
    /\ \E k \in DOMAIN messages :
          /\ messages[k].fileUrl # NullText
          /\ messages[k].senderId = items[messages[k].itemId].userId
          /\ messages[k].receiverId # messages[k].senderId
    /\ \E r \in Users, i \in ItemIds :
          /\ items[i].state = "live"
          /\ r # items[i].userId
          /\ ~buyerInitiatedContact(items[i].userId, r, i)
\* C25: when checkouts do not overlap, every item is referenced by at most
\* one order_items row over all orders, also when a cart has several rows for
\* one (user, item) pair.
C25_OneOrderItemPerItem ==
    \A k1, k2 \in DOMAIN orderItems :
        orderItems[k1].itemId = orderItems[k2].itemId => k1 = k2
\* C26: after every sequence of operations an item has isSold = true if and
\* only if at least one order_items row references it.
C26_SoldIffOrdered ==
    \A i \in ItemIds : (items[i].state = "live" /\ items[i].isSold) <=> Referenced(i)

\* a sold item with its order item, updated by its owner after the sale and
\* put into a cart again
C26_Witness ==
    \E i \in ItemIds, u \in Users :
        /\ items[i].isSold
        /\ Referenced(i)
        /\ items[i].itemType = "barter"
        /\ cartItems[u][i] > 0
        /\ tx["p1"].pc = "idle"
\* the user of the checkout of p that takes the step
CheckoutUser(p) == IF tx[p].pc = "idle" THEN tx'[p].userId ELSE tx[p].userId

\* C27: every step of a checkout by a user, the commit and the failures
\* included, leaves the cart rows of every other user and the wishlist rows of
\* every user as they are, also those of items the checkout marks sold.
C27_OthersUntouched ==
    [][\A p \in Procs :
          tx'[p] # tx[p] =>
              /\ wishlistItems' = wishlistItems
              /\ \A v \in Users \ {CheckoutUser(p)} : cartItems'[v] = cartItems[v]]_vars

\* a checkout has sold an item that is on the buyer's wishlist and in the
\* cart of another user
C27_Witness ==
    /\ tx["p1"].pc = "idle"
    /\ tx["p1"].status = 201
    /\ \E i \in ItemIds, v \in Users \ {tx["p1"].userId} :
          /\ tx["p1"].done[i] > 0
          /\ items[i].isSold
          /\ wishlistItems[tx["p1"].userId][i] > 0
          /\ cartItems[v][i] > 0
\* C28: a checkout deletes from the user's cart only the rows it loaded at its
\* start: a row the user adds while the checkout is in progress is in the
\* cart after the checkout commits.
C28_LoadedRowsOnly ==
    [][\A p \in Procs, i \in ItemIds :
          Succeeds(p) =>
              cartItems'[tx[p].userId][i] + tx[p].rows[i] >= cartItems[tx[p].userId][i]]_vars
\* C29: two concurrent checkouts of one user on the same cart never leave
\* two orders of the user that both have an order item for the same item.
C29_NoDoubleSubmit ==
    \A k1, k2 \in DOMAIN orderItems :
        (/\ orderItems[k1].itemId = orderItems[k2].itemId
         /\ orders[orderItems[k1].orderId].userId = orders[orderItems[k2].orderId].userId)
            => orderItems[k1].orderId = orderItems[k2].orderId
\* the rows the checkout loaded have an unsold item for sale without a price
UnpricedRow(t) ==
    \E i \in ItemIds :
        /\ t.rows[i] > 0
        /\ t.snap[i].state = "live"
        /\ t.snap[i].itemType = "sell"
        /\ ~t.snap[i].isSold
        /\ t.snap[i].price = NULL

RECURSIVE PricedSum(_, _)
\* the sum over the loaded rows of unsold items for sale among the first k
\* items, a row without a price counting 0
PricedSum(t, k) ==
    IF k = 0 THEN 0
    ELSE PricedSum(t, k - 1) +
         LET item == t.snap[ItemSeq[k]]
         IN  IF item.state = "live" /\ item.itemType = "sell" /\ ~item.isSold
                /\ item.price # NULL
             THEN t.rows[ItemSeq[k]] * item.price ELSE 0

\* C30: a checkout of a cart with an unsold item for sale whose price is null
\* does not leave the row out: it goes on to the order even when the row is
\* the only one, counts the row as 0 in the total, and every step of it, the
\* failing insert of the order item included, leaves the store unchanged: it
\* ends with 500, no order, no isSold set and the cart as it was, also when
\* other rows of the cart are valid and priced.
C30_UnpricedAborts ==
    [][\A p \in Procs :
          /\ \A u \in Users :
                (/\ Starts(p, u)
                 /\ \E i \in ItemIds :
                       cartItems[u][i] > 0 /\ Sellable(i) /\ items[i].price = NULL) =>
                    tx'[p].pc = "order" /\ UnpricedRow(tx'[p])
          /\ (UnpricedRow(tx[p]) /\ tx'[p] # tx[p]) =>
                /\ store' = store
                /\ (tx[p].pc = "order" /\ tx'[p].pc = "items") =>
                      tx'[p].total = PricedSum(tx[p], Len(ItemSeq))
                /\ tx'[p].pc # "clear"
                /\ tx'[p].pc = "idle" => tx'[p].status = 500]_vars

\* a checkout has gone through a priced row and failed on the row without a
\* price: no order, no item sold, both rows in the cart
C30_Witness ==
    /\ tx["p1"].pc = "idle"
    /\ tx["p1"].status = 500
    /\ tx["p1"].message = "insert or update violates constraint"
    /\ orders = <<>>
    /\ \A i \in ItemIds : ~items[i].isSold
    /\ \E i, j \in ItemIds :
          /\ items[i].itemType = "sell" /\ items[i].price = NULL
          /\ items[j].itemType = "sell" /\ items[j].price # NULL
          /\ tx["p1"].rows[i] > 0
          /\ tx["p1"].done[j] > 0
          /\ cartItems[tx["p1"].userId][i] > 0
          /\ cartItems[tx["p1"].userId][j] > 0

====
